---- MODULE Spec2Model ----
(***************************************************************************)
(* Model of bin/sky-cam-cv.py: a reader thread (StreamCapture._reader)      *)
(* feeding a frame queue, the accumulation loop (VideoStacker.run) that     *)
(* builds max-stack composites and emits save jobs, and the saver thread    *)
(* (Saver._save) that writes them.                                          *)
(***************************************************************************)
EXTENDS Integers, Sequences, FiniteSets, TLC

\* ------------------------------------------------------------------ bounds
MaxTime == 2        \* the wall clock runs over 0..MaxTime
MaxFrames == 4      \* successful cap.read() calls per run
MaxLength == 1      \* configured stack_length is drawn from 0..MaxLength
MaxWindow == 2      \* compared frames per window in the stacking specification

\* ------------------------------------------------------------- constants
Uint16Mod == 65536  \* np.uint16 arithmetic wraps modulo 2^16
NoTime == -1        \* self._start_time = None
NoImage == <<>>     \* self._max_stack = None (a frame has at least one pixel)

\* A pixel is a BGR triple of 8-bit channels.  <<1,1,1>> and <<3,0,0>> have
\* the same channel sum and different contents.
PixelSet == { <<0, 0, 0>>, <<1, 1, 1>>, <<3, 0, 0>>, <<255, 255, 255>> }

\* Frames delivered by the camera in the pipeline: one-pixel images, a dim
\* one and a brighter one.
StreamFrames == { << <<1, 1, 1>> >>, << <<2, 2, 2>> >> }

\* Frames of the stacking specification: two-pixel images.
StackFrames == PixelSet \X PixelSet

VARIABLES
    stack_period,   \* config["stacks"]["stack_period"]
    stack_length,   \* config["stacks"]["stack_length"]
    config,         \* the configuration file as read_config returned it
    sched,          \* what _calculate_stack_period returns for the location
    consulted,      \* _calculate_stack_period(config["location"]) was called
    now,            \* time.time()
    \* StreamCapture
    cap_reads,      \* number of frames cap.read() has returned
    cap_released,   \* cap.release() was called
    fq,             \* StreamCapture.q
    stream_running, \* StreamCapture.running
    r_pc,           \* position of the reader thread
    r_item,         \* (ret, frame, frame_time) held by the reader before q.put
    \* Saver
    sq,             \* Saver.q
    saver_running,  \* Saver.running
    s_pc,           \* position of the saver thread
    s_job,          \* job held by the saver thread between q.get and the write
    \* VideoStacker
    m_pc,           \* position of the main thread
    m_item,         \* tuple returned by self._stream.read()
    start_time,     \* VideoStacker._start_time
    end_time,       \* VideoStacker._end_time
    max_stack,      \* VideoStacker._max_stack
    stack_buf,      \* which array _max_stack refers to: the id of the frame it
                    \* was bound to, 0 for None
    stack_sum,      \* VideoStacker._stack_sum
    num_frames,     \* VideoStacker._num_frames
    save_at,        \* local save_at of VideoStacker.run
    \* history
    win_frames,     \* frames folded into the open window, seed first
    emitted,        \* every SaveJob put on Saver.q, with the frames behind it
    handled,        \* ids of jobs handed to _save_max_stack
    saved,          \* ids of jobs whose image was written
    stop_log        \* shutdown steps in the order they happened

vars == << stack_period, stack_length, config, sched, consulted, now, cap_reads, cap_released, fq,
           stream_running, r_pc, r_item, sq, saver_running, s_pc, s_job,
           m_pc, m_item, start_time, end_time, max_stack, stack_buf, stack_sum,
           num_frames, save_at, win_frames, emitted, handled, saved, stop_log >>

configVars == << stack_period, stack_length, config, sched, consulted >>
streamVars == << cap_reads, cap_released, fq, stream_running, r_pc, r_item >>
saverVars == << sq, saver_running, s_pc, s_job, handled, saved >>
stackVars == << start_time, max_stack, stack_buf, stack_sum, num_frames, save_at,
               win_frames >>

NoItem == [ret |-> FALSE, frame |-> NoImage, frame_time |-> NoTime, id |-> 0,
           late |-> FALSE]
NoJob == [start_time |-> NoTime, data |-> NoImage, stack_type |-> "none",
          stack_length |-> 0, id |-> 0, buf |-> 0]

\* ------------------------------------------------- the max-stack algorithm
RECURSIVE SumSeq(_)
SumSeq(s) == IF s = <<>> THEN 0 ELSE Head(s) + SumSeq(Tail(s))

\* Variant: the channel sum is accumulated in the frame's own 8-bit type.
frame_sum_uint8(frame) == [i \in 1..Len(frame) |-> SumSeq(frame[i]) % 256]

\* np.sum(frame, axis=-1, dtype=np.uint16)
frame_sum(frame) == [i \in 1..Len(frame) |-> SumSeq(frame[i]) % Uint16Mod]

\* np.zeros(frame.shape[:2], dtype=np.uint16)
zeros(frame) == [i \in 1..Len(frame) |-> 0]

Max2(a, b) == IF a > b THEN a ELSE b

\* Variant: a channel-wise maximum, np.maximum(max_stack, frame).
update_max_stack_numba_channelwise(ms, frame, ss) ==
    [max_stack |-> [i \in 1..Len(frame) |->
                      [c \in 1..Len(frame[i]) |-> Max2(ms[i][c], frame[i][c])]],
     stack_sum |-> [i \in 1..Len(frame) |->
                      IF frame_sum(frame)[i] > ss[i] THEN frame_sum(frame)[i] ELSE ss[i]]]

\* Variant: the pixel is overwritten, the stored sum is not.
update_max_stack_numba_nosum(ms, frame, ss) ==
    [max_stack |-> [i \in 1..Len(frame) |->
                      IF frame_sum(frame)[i] > ss[i] THEN frame[i] ELSE ms[i]],
     stack_sum |-> ss]

\* Variant: replace on greater or equal.
update_max_stack_numba_ge(ms, frame, ss) ==
    [max_stack |-> [i \in 1..Len(frame) |->
                      IF frame_sum(frame)[i] >= ss[i] THEN frame[i] ELSE ms[i]],
     stack_sum |-> [i \in 1..Len(frame) |->
                      IF frame_sum(frame)[i] >= ss[i] THEN frame_sum(frame)[i] ELSE ss[i]]]

\* _update_max_stack_numba: per pixel, overwrite on a strictly greater sum.
update_max_stack_numba(ms, frame, ss) ==
    [max_stack |-> [i \in 1..Len(frame) |->
                      IF frame_sum(frame)[i] > ss[i] THEN frame[i] ELSE ms[i]],
     stack_sum |-> [i \in 1..Len(frame) |->
                      IF frame_sum(frame)[i] > ss[i] THEN frame_sum(frame)[i] ELSE ss[i]]]

\* ------------------------------------------------------------------- Init
\* Configured session durations: the scheduler's "do not run" value and a
\* session that lasts as long as the modelled clock.
Periods == {-1, MaxTime}

\* A configuration file without a stack_period, for which the scheduler was
\* asked.
ScheduledConfig == [top_key |-> FALSE, stacks_period |-> {}, location |-> TRUE]

\* The state when _set_stack_period_to_config has returned with the scheduler's
\* value.
Init ==
    /\ stack_period \in Periods
    /\ stack_length \in 0..MaxLength
    /\ config = ScheduledConfig
    /\ sched = stack_period
    /\ consulted = TRUE
    /\ now = 0
    /\ cap_reads = 0
    /\ cap_released = FALSE
    /\ fq = <<>>
    /\ stream_running = FALSE
    /\ r_pc = "unstarted"
    /\ r_item = NoItem
    /\ sq = <<>>
    /\ saver_running = FALSE
    /\ s_pc = "unstarted"
    /\ s_job = NoJob
    /\ m_pc = "main"
    /\ m_item = NoItem
    /\ start_time = NoTime
    /\ end_time = 0
    /\ max_stack = NoImage
    /\ stack_buf = 0
    /\ stack_sum = <<>>
    /\ num_frames = 0
    /\ save_at = 0
    /\ win_frames = <<>>
    /\ emitted = <<>>
    /\ handled = <<>>
    /\ saved = <<>>
    /\ stop_log = <<>>

\* The interpreter lives while the main thread does: the reader and the saver
\* are daemon threads.
ProcessAlive == m_pc \notin {"returned", "crashed", "done"}

\* time.time() advances.
Tick ==
    /\ ProcessAlive
    /\ now < MaxTime
    /\ now' = now + 1
    /\ UNCHANGED << configVars, streamVars, saverVars, stackVars, m_pc, m_item,
                    end_time, emitted, stop_log >>

\* ------------------------------------------------------ StreamCapture._reader
\* Variant: the reader loop never tests self.running.
ReaderCheck_always ==
    /\ ProcessAlive
    /\ r_pc = "check"
    /\ r_pc' = "capread"
    /\ UNCHANGED << configVars, now, cap_reads, cap_released, fq, stream_running,
                    r_item, saverVars, stackVars, m_pc, m_item, end_time,
                    emitted, stop_log >>

\* while self.running:
ReaderCheck ==
    /\ ProcessAlive
    /\ r_pc = "check"
    /\ r_pc' = IF stream_running THEN "capread" ELSE "exited"
    /\ UNCHANGED << configVars, now, cap_reads, cap_released, fq, stream_running,
                    r_item, saverVars, stackVars, m_pc, m_item, end_time,
                    emitted, stop_log >>

\* ret, frame = self.cap.read(); frame_time = time.time(): the camera
\* delivers one of `frames`, at most `limit` of them in a run.  `id` numbers
\* the arrays cap.read() returns, `late` records that StreamCapture.stop() had
\* already cleared self.running when the read completed.
GotFrame(frames, limit) ==
    /\ ProcessAlive
    /\ r_pc = "capread"
    /\ cap_reads < limit
    /\ \E f \in frames :
          r_item' = [ret |-> TRUE, frame |-> f, frame_time |-> now,
                     id |-> cap_reads + 1, late |-> ~stream_running]
    /\ cap_reads' = cap_reads + 1
    /\ r_pc' = "put"
    /\ UNCHANGED << configVars, now, cap_released, fq, stream_running,
                    saverVars, stackVars, m_pc, m_item, end_time, emitted,
                    stop_log >>

ReaderGotFrame == GotFrame(StreamFrames, MaxFrames)

\* ret, frame = self.cap.read() fails; if not ret: break
ReaderReadFails ==
    /\ ProcessAlive
    /\ r_pc = "capread"
    /\ r_pc' = "exited"
    /\ UNCHANGED << configVars, now, cap_reads, cap_released, fq, stream_running,
                    r_item, saverVars, stackVars, m_pc, m_item, end_time,
                    emitted, stop_log >>

\* self.q.put((ret, frame, frame_time))
ReaderPut ==
    /\ ProcessAlive
    /\ r_pc = "put"
    /\ fq' = Append(fq, r_item)
    /\ r_item' = NoItem
    /\ r_pc' = "check"
    /\ UNCHANGED << configVars, now, cap_reads, cap_released, stream_running,
                    saverVars, stackVars, m_pc, m_item, end_time, emitted,
                    stop_log >>

\* ------------------------------------------------------------- Saver._save
\* while self.running:
SaverCheck ==
    /\ ProcessAlive
    /\ s_pc = "check"
    /\ s_pc' = IF saver_running THEN "get" ELSE "exited"
    /\ UNCHANGED << configVars, now, streamVars, sq, saver_running, s_job,
                    handled, saved, stackVars, m_pc, m_item, end_time, emitted,
                    stop_log >>

\* Variant: the newest job is taken first.
SaverGet_lifo ==
    /\ ProcessAlive
    /\ s_pc = "get"
    /\ sq # <<>>
    /\ s_job' = sq[Len(sq)]
    /\ sq' = SubSeq(sq, 1, Len(sq) - 1)
    /\ s_pc' = "write"
    /\ UNCHANGED << configVars, now, streamVars, saver_running, handled, saved,
                    stackVars, m_pc, m_item, end_time, emitted, stop_log >>

\* self.q.get(): blocks without timeout until a job is there.
SaverGet ==
    /\ ProcessAlive
    /\ s_pc = "get"
    /\ sq # <<>>
    /\ s_job' = Head(sq)
    /\ sq' = Tail(sq)
    /\ s_pc' = "write"
    /\ UNCHANGED << configVars, now, streamVars, saver_running, handled, saved,
                    stackVars, m_pc, m_item, end_time, emitted, stop_log >>

\* _save_max_stack on a job whose data is None: data[:, :, ::-1] raises and
\* the exception ends the thread.
SaverBadJob ==
    /\ ProcessAlive
    /\ s_pc = "write"
    /\ s_job.data = NoImage
    /\ handled' = Append(handled, s_job.id)
    /\ s_pc' = "dead"
    /\ s_job' = NoJob
    /\ UNCHANGED << configVars, now, streamVars, sq, saver_running, saved,
                    stackVars, m_pc, m_item, end_time, emitted, stop_log >>

\* _save_max_stack: img.save(fname) succeeds.
SaverWriteOk ==
    /\ ProcessAlive
    /\ s_pc = "write"
    /\ s_job.data # NoImage
    /\ handled' = Append(handled, s_job.id)
    /\ saved' = Append(saved, s_job.id)
    /\ s_pc' = "check"
    /\ s_job' = NoJob
    /\ UNCHANGED << configVars, now, streamVars, sq, saver_running,
                    stackVars, m_pc, m_item, end_time, emitted, stop_log >>

\* _save_max_stack: img.save(fname) raises; nothing in _save catches it.
SaverWriteFails ==
    /\ ProcessAlive
    /\ s_pc = "write"
    /\ s_job.data # NoImage
    /\ handled' = Append(handled, s_job.id)
    /\ s_pc' = "dead"
    /\ s_job' = NoJob
    /\ UNCHANGED << configVars, now, streamVars, sq, saver_running, saved,
                    stackVars, m_pc, m_item, end_time, emitted, stop_log >>

\* ------------------------------------------------------------------ main()
\* if config["stacks"]["stack_period"] < 0: return
MainReturn ==
    /\ m_pc = "main"
    /\ stack_period < 0
    /\ m_pc' = "returned"
    /\ UNCHANGED << configVars, now, streamVars, saverVars, stackVars, m_item,
                    end_time, emitted, stop_log >>

\* Variant: the components are constructed whatever the session duration.
MainConstruct_unguarded ==
    /\ m_pc = "main"
    /\ saver_running' = TRUE
    /\ s_pc' = "check"
    /\ end_time' = now + stack_period
    /\ m_pc' = "run"
    /\ UNCHANGED << configVars, now, streamVars, sq, s_job, handled, saved,
                    stackVars, m_item, emitted, stop_log >>

\* StreamCapture(...), Saver(...) (which starts the saver thread) and
\* VideoStacker(...) are constructed.
MainConstruct ==
    /\ m_pc = "main"
    /\ ~(stack_period < 0)
    /\ saver_running' = TRUE
    /\ s_pc' = "check"
    /\ end_time' = now + stack_period
    /\ m_pc' = "run"
    /\ UNCHANGED << configVars, now, streamVars, sq, s_job, handled, saved,
                    stackVars, m_item, emitted, stop_log >>

\* ---------------------------------------------------------- VideoStacker.run
\* self._stream.run(); self._num_frames = 0
StackerRun ==
    /\ m_pc = "run"
    /\ stream_running' = TRUE
    /\ r_pc' = "check"
    /\ num_frames' = 0
    /\ m_pc' = "keep"
    /\ UNCHANGED << configVars, now, cap_reads, cap_released, fq, r_item,
                    saverVars, start_time, max_stack, stack_buf, stack_sum,
                    save_at, win_frames, m_item, end_time, emitted, stop_log >>

\* _keep_running: time.time() < self._end_time
KeepRunning ==
    /\ m_pc = "keep"
    /\ now < end_time
    /\ m_pc' = "read"
    /\ UNCHANGED << configVars, now, streamVars, saverVars, stackVars, m_item,
                    end_time, emitted, stop_log >>

\* _keep_running: the deadline has passed, self.stop() is entered
KeepRunningStop ==
    /\ m_pc = "keep"
    /\ ~(now < end_time)
    /\ m_pc' = "stop_save"
    /\ UNCHANGED << configVars, now, streamVars, saverVars, stackVars, m_item,
                    end_time, emitted, stop_log >>

\* success, frame, frame_time = self._stream.read(): a blocking q.get();
\* if not success: continue
StreamRead ==
    /\ m_pc = "read"
    /\ fq # <<>>
    /\ m_item' = Head(fq)
    /\ fq' = Tail(fq)
    /\ m_pc' = IF Head(fq).ret THEN "proc" ELSE "keep"
    /\ UNCHANGED << configVars, now, cap_reads, cap_released, stream_running,
                    r_pc, r_item, saverVars, stackVars, end_time, emitted,
                    stop_log >>

\* if self._max_stack is None: the frame seeds a new window
StackerSeed ==
    /\ m_pc = "proc"
    /\ max_stack = NoImage
    /\ start_time' = m_item.frame_time
    /\ max_stack' = m_item.frame
    /\ stack_buf' = m_item.id
    /\ save_at' = m_item.frame_time + stack_length
    /\ stack_sum' = zeros(m_item.frame)
    /\ win_frames' = << m_item >>
    /\ m_pc' = "keep"
    /\ UNCHANGED << configVars, now, streamVars, saverVars, num_frames, m_item,
                    end_time, emitted, stop_log >>

\* The SaveJob that VideoStacker.save() puts on the saver queue.
SaveJob(data) ==
    [start_time |-> start_time, data |-> data, stack_type |-> "max",
     stack_length |-> stack_length, id |-> Len(emitted) + 1, buf |-> stack_buf]

\* Variant: save() keeps self._max_stack bound to the array it has just put on
\* the saver queue.
save_keep(data, frames, cause) ==
    /\ sq' = Append(sq, SaveJob(data))
    /\ emitted' = Append(emitted, [job |-> SaveJob(data), frames |-> frames,
                                   cause |-> cause])
    /\ start_time' = NoTime
    /\ max_stack' = data
    /\ stack_buf' = stack_buf
    /\ num_frames' = 0
    /\ win_frames' = <<>>

\* VideoStacker.save(): put the job, forget the window.
save(data, frames, cause) ==
    /\ sq' = Append(sq, SaveJob(data))
    /\ emitted' = Append(emitted, [job |-> SaveJob(data), frames |-> frames,
                                   cause |-> cause])
    /\ start_time' = NoTime
    /\ max_stack' = NoImage
    /\ stack_buf' = 0
    /\ num_frames' = 0
    /\ win_frames' = <<>>

\* self._update_stacks(frame, frame_time); frame_time <= save_at
StackerAccumulate ==
    /\ m_pc = "proc"
    /\ max_stack # NoImage
    /\ ~(m_item.frame_time > save_at)
    /\ LET u == update_max_stack_numba(max_stack, m_item.frame, stack_sum)
       IN  /\ max_stack' = u.max_stack
           /\ stack_sum' = u.stack_sum
    /\ win_frames' = Append(win_frames, m_item)
    /\ num_frames' = num_frames + 1
    /\ m_pc' = "keep"
    /\ UNCHANGED << configVars, now, streamVars, saverVars, start_time, stack_buf,
                    save_at, m_item, end_time, emitted, stop_log >>

\* A flush that tests the time before folding the frame: the triggering frame
\* stays out of the flushed composite.
StackerFlush_unfolded ==
    /\ m_pc = "proc"
    /\ max_stack # NoImage
    /\ m_item.frame_time > save_at
    /\ num_frames # 0
    /\ save(max_stack, Append(win_frames, m_item), "flush")
    /\ m_pc' = "keep"
    /\ UNCHANGED << configVars, now, streamVars, s_pc, s_job, saver_running,
                    handled, saved, stack_sum, save_at, m_item, end_time,
                    stop_log >>

\* self._update_stacks(frame, frame_time); frame_time > save_at:
\* print(sum(times) / self._num_frames); self.save()
StackerFlush ==
    /\ m_pc = "proc"
    /\ max_stack # NoImage
    /\ m_item.frame_time > save_at
    /\ num_frames # 0
    /\ LET u == update_max_stack_numba(max_stack, m_item.frame, stack_sum)
       IN  /\ save(u.max_stack, Append(win_frames, m_item), "flush")
           /\ stack_sum' = u.stack_sum
    /\ m_pc' = "keep"
    /\ UNCHANGED << configVars, now, streamVars, s_pc, s_job, saver_running,
                    handled, saved, save_at, m_item, end_time, stop_log >>

\* self._update_stacks(frame, frame_time); frame_time > save_at with
\* self._num_frames == 0: the division raises ZeroDivisionError, run() and
\* with it the process end.
StackerFlushZeroDiv ==
    /\ m_pc = "proc"
    /\ max_stack # NoImage
    /\ m_item.frame_time > save_at
    /\ num_frames = 0
    /\ LET u == update_max_stack_numba(max_stack, m_item.frame, stack_sum)
       IN  /\ max_stack' = u.max_stack
           /\ stack_sum' = u.stack_sum
    /\ win_frames' = Append(win_frames, m_item)
    /\ m_pc' = "crashed"
    /\ UNCHANGED << configVars, now, streamVars, saverVars, start_time, stack_buf,
                    num_frames, save_at, m_item, end_time, emitted, stop_log >>

\* --------------------------------------------------------- VideoStacker.stop
\* self.save()
StopSave ==
    /\ m_pc = "stop_save"
    /\ save(max_stack, win_frames, "stop")
    /\ stop_log' = Append(stop_log, "flush")
    /\ m_pc' = "stream_stop"
    /\ UNCHANGED << configVars, now, streamVars, s_pc, s_job, saver_running,
                    handled, saved, stack_sum, save_at, m_item, end_time >>

\* StreamCapture.stop: self.running = False
StreamStop ==
    /\ m_pc = "stream_stop"
    /\ stream_running' = FALSE
    /\ m_pc' = "stream_join"
    /\ UNCHANGED << configVars, now, cap_reads, cap_released, fq, r_pc, r_item,
                    saverVars, stackVars, m_item, end_time, emitted, stop_log >>

\* StreamCapture.stop: self.t.join(); self.cap.release()
StreamJoin ==
    /\ m_pc = "stream_join"
    /\ r_pc = "exited"
    /\ cap_released' = TRUE
    /\ stop_log' = Append(stop_log, "stream_stopped")
    /\ m_pc' = "saver_stop"
    /\ UNCHANGED << configVars, now, cap_reads, fq, stream_running, r_pc, r_item,
                    saverVars, stackVars, m_item, end_time, emitted >>

\* Saver.stop: self.running = False
SaverStop ==
    /\ m_pc = "saver_stop"
    /\ saver_running' = FALSE
    /\ m_pc' = "saver_join"
    /\ UNCHANGED << configVars, now, streamVars, sq, s_pc, s_job, handled, saved,
                    stackVars, m_item, end_time, emitted, stop_log >>

\* Saver.stop: self.t.join() returns once the saver thread has ended
SaverJoin ==
    /\ m_pc = "saver_join"
    /\ s_pc \in {"exited", "dead"}
    /\ stop_log' = Append(stop_log, "saver_stopped")
    /\ m_pc' = "done"
    /\ UNCHANGED << configVars, now, streamVars, saverVars, stackVars, m_item,
                    end_time, emitted >>

\* ------------------------------------------------------------ specification
Next ==
    \/ Tick
    \/ ReaderCheck \/ ReaderGotFrame \/ ReaderReadFails \/ ReaderPut
    \/ SaverCheck \/ SaverGet \/ SaverBadJob \/ SaverWriteOk \/ SaverWriteFails
    \/ MainReturn \/ MainConstruct \/ StackerRun
    \/ KeepRunning \/ KeepRunningStop \/ StreamRead
    \/ StackerSeed \/ StackerAccumulate \/ StackerFlush \/ StackerFlushZeroDiv
    \/ StopSave \/ StreamStop \/ StreamJoin \/ SaverStop \/ SaverJoin

Spec == Init /\ [][Next]_vars

\* The stacking specification: the session is running far from its deadline,
\* the camera delivers two-pixel frames one at a time and the accumulation
\* loop folds each of them into the open window.
InitStack ==
    /\ stack_period = MaxTime
    /\ stack_length = MaxLength
    /\ config = ScheduledConfig
    /\ sched = MaxTime
    /\ consulted = TRUE
    /\ now = 0
    /\ cap_reads = 0
    /\ cap_released = FALSE
    /\ fq = <<>>
    /\ stream_running = TRUE
    /\ r_pc = "check"
    /\ r_item = NoItem
    /\ sq = <<>>
    /\ saver_running = TRUE
    /\ s_pc = "check"
    /\ s_job = NoJob
    /\ m_pc = "keep"
    /\ m_item = NoItem
    /\ start_time = NoTime
    /\ end_time = MaxTime
    /\ max_stack = NoImage
    /\ stack_buf = 0
    /\ stack_sum = <<>>
    /\ num_frames = 0
    /\ save_at = 0
    /\ win_frames = <<>>
    /\ emitted = <<>>
    /\ handled = <<>>
    /\ saved = <<>>
    /\ stop_log = <<>>

StackGotFrame ==
    /\ m_pc = "read"
    /\ fq = <<>>
    /\ GotFrame(StackFrames, MaxWindow + 1)

NextStack ==
    \/ ReaderCheck \/ StackGotFrame \/ ReaderPut
    \/ KeepRunning \/ StreamRead \/ StackerSeed \/ StackerAccumulate

SpecStack == InitStack /\ [][NextStack]_vars

\* The startup specification: main() from read_config on.  `top_key` is
\* whether the file has a top-level key "stack_period", `stacks_period` holds
\* the value of stacks.stack_period if the file has one, `location` is whether
\* the file has a location section.
Configs ==
    [top_key : BOOLEAN,
     stacks_period : {{}} \cup { {p} : p \in -1..MaxTime },
     location : BOOLEAN]

InitConfig ==
    /\ config \in Configs
    /\ sched \in -1..MaxTime
    /\ consulted = FALSE
    /\ IF config.stacks_period = {} THEN stack_period = 0
       ELSE stack_period \in config.stacks_period
    /\ stack_length \in 0..MaxLength
    /\ now = 0
    /\ cap_reads = 0
    /\ cap_released = FALSE
    /\ fq = <<>>
    /\ stream_running = FALSE
    /\ r_pc = "unstarted"
    /\ r_item = NoItem
    /\ sq = <<>>
    /\ saver_running = FALSE
    /\ s_pc = "unstarted"
    /\ s_job = NoJob
    /\ m_pc = "config"
    /\ m_item = NoItem
    /\ start_time = NoTime
    /\ end_time = 0
    /\ max_stack = NoImage
    /\ stack_buf = 0
    /\ stack_sum = <<>>
    /\ num_frames = 0
    /\ save_at = 0
    /\ win_frames = <<>>
    /\ emitted = <<>>
    /\ handled = <<>>
    /\ saved = <<>>
    /\ stop_log = <<>>

restVars == << now, streamVars, saverVars, stackVars, m_item, end_time, emitted,
               stop_log >>

\* _set_stack_period_to_config: "stack_period" in config, return
ConfigKeep ==
    /\ m_pc = "config"
    /\ config.top_key
    /\ config.stacks_period # {}
    /\ m_pc' = "main"
    /\ UNCHANGED << configVars, restVars >>

\* "stack_period" in config, return; main then reads
\* config["stacks"]["stack_period"], which the file does not have: KeyError
ConfigMissingPeriod ==
    /\ m_pc = "config"
    /\ config.top_key
    /\ config.stacks_period = {}
    /\ m_pc' = "crashed"
    /\ UNCHANGED << configVars, restVars >>

\* config["stacks"]["stack_period"] = _calculate_stack_period(config["location"])
ConfigFromScheduler ==
    /\ m_pc = "config"
    /\ ~config.top_key
    /\ config.location
    /\ stack_period' = sched
    /\ consulted' = TRUE
    /\ m_pc' = "main"
    /\ UNCHANGED << stack_length, config, sched, restVars >>

\* config["location"] of a file without a location section: KeyError
ConfigMissingLocation ==
    /\ m_pc = "config"
    /\ ~config.top_key
    /\ ~config.location
    /\ m_pc' = "crashed"
    /\ UNCHANGED << configVars, restVars >>

NextConfig ==
    \/ ConfigKeep \/ ConfigMissingPeriod \/ ConfigFromScheduler
    \/ ConfigMissingLocation \/ MainReturn \/ MainConstruct

SpecConfig == InitConfig /\ [][NextConfig]_vars

\* ------------------------------------------------------------------ claims
WindowOpen == max_stack # NoImage

Pixels == 1..Len(max_stack)

\* The compared frames of the open window: all but the seeding frame.
Compared == 2..Len(win_frames)

SumAt(k, i) == SumSeq(win_frames[k].frame[i])

\* C3 as stated: while a window is open, stack_sum[y,x] is the channel sum of
\* max_stack[y,x] at every pixel, from the seeding frame on.
C3_SumMatchesStack ==
    WindowOpen => \A i \in Pixels : stack_sum[i] = SumSeq(max_stack[i])

\* C3 amended: while a window is open, every pixel either still holds the
\* seeding frame's pixel with a stored sum of 0, or holds a compared frame's
\* pixel and stack_sum is the channel sum of that pixel.
C3_SumMatchesOverwritten ==
    WindowOpen =>
        \A i \in Pixels :
            \/ stack_sum[i] = 0 /\ max_stack[i] = win_frames[1].frame[i]
            \/ stack_sum[i] > 0 /\ stack_sum[i] = SumSeq(max_stack[i])

\* A window in which one pixel was overwritten by a compared frame and another
\* still holds a seed pixel of nonzero channel sum.
C3_Witness ==
    /\ WindowOpen
    /\ Len(win_frames) >= 2
    /\ \E i \in Pixels : stack_sum[i] > 0 /\ max_stack[i] # win_frames[1].frame[i]
    /\ \E j \in Pixels : stack_sum[j] = 0 /\ SumSeq(max_stack[j]) > 0

\* The compared frames whose channel sum at pixel i is above 0 and not below
\* that of any other compared frame.
Brightest(i) ==
    { k \in Compared : SumAt(k, i) > 0 /\ \A j \in Compared : SumAt(j, i) <= SumAt(k, i) }

\* C4: every pixel of max_stack is the whole pixel of one compared frame of
\* greatest channel sum at that pixel; the seeding frame's pixel is kept exactly
\* when no compared frame has a sum above 0 there.
C4_MaxSelection ==
    WindowOpen =>
        \A i \in Pixels :
            IF Brightest(i) = {}
            THEN max_stack[i] = win_frames[1].frame[i]
            ELSE \E k \in Brightest(i) : max_stack[i] = win_frames[k].frame[i]

\* A window with two compared frames in which one pixel comes from the first
\* compared frame, the other from the second, and the seed has lost both.
C4_Witness ==
    /\ WindowOpen
    /\ Len(win_frames) = 3
    /\ \E i, j \in Pixels :
          /\ Brightest(i) = {2} /\ max_stack[i] # win_frames[3].frame[i]
          /\ Brightest(j) = {3} /\ max_stack[j] # win_frames[2].frame[j]
          /\ max_stack[i] # win_frames[1].frame[i]
          /\ max_stack[j] # win_frames[1].frame[j]

\* The step of the accumulation loop that folds the dequeued frame into the
\* open window.
FoldStep == m_pc = "proc" /\ WindowOpen /\ max_stack' # NoImage

\* C5 as stated: a frame whose channel sum at a pixel equals the channel sum of
\* the pixel held in max_stack never overwrites it, the seeding frame's pixels
\* included.
C5_TieKeepsHeldPixel ==
    [][FoldStep =>
         \A i \in Pixels :
             frame_sum(m_item.frame)[i] = SumSeq(max_stack[i])
                 => max_stack'[i] = max_stack[i]]_vars

\* C5 amended: a frame whose channel sum at a pixel equals the stored sum
\* stack_sum of that pixel never overwrites it; the stored sum is the held
\* pixel's channel sum once a compared frame was stored and 0 while the seeding
\* frame's pixel is held, so a seed pixel does yield to a frame of equal sum.
C5_TieKeepsStored ==
    [][FoldStep =>
         \A i \in Pixels :
             frame_sum(m_item.frame)[i] = stack_sum[i]
                 => max_stack'[i] = max_stack[i] /\ stack_sum'[i] = stack_sum[i]]_vars

\* After a tie: the last compared frame has the stored sum at a pixel and a
\* different content, and max_stack holds the earlier frame's pixel.
C5_Witness ==
    /\ WindowOpen
    /\ Len(win_frames) = 3
    /\ \E i \in Pixels :
          /\ SumAt(3, i) = SumAt(2, i)
          /\ SumAt(3, i) = stack_sum[i]
          /\ win_frames[3].frame[i] # win_frames[2].frame[i]
          /\ max_stack[i] = win_frames[2].frame[i]

\* The stack VideoStacker.run builds from a window's frames: the first one
\* seeds it, every later one is folded in.
RECURSIVE StackOf(_)
StackOf(items) ==
    IF Len(items) = 1
    THEN [max_stack |-> items[1].frame, stack_sum |-> zeros(items[1].frame)]
    ELSE LET before == StackOf(SubSeq(items, 1, Len(items) - 1))
         IN  update_max_stack_numba(before.max_stack, items[Len(items)].frame,
                                    before.stack_sum)

Last(seq) == seq[Len(seq)]
Front(seq) == SubSeq(seq, 1, Len(seq) - 1)

\* The jobs emitted by the flush branch of VideoStacker.run.
Flushes == { k \in 1..Len(emitted) : emitted[k].cause = "flush" }

\* C2 as stated: the image of a flushed SaveJob is built from the frames before
\* the triggering frame only, and the triggering frame seeds the next window.
C2_TriggerExcluded ==
    /\ \A k \in Flushes :
          emitted[k].job.data = StackOf(Front(emitted[k].frames)).max_stack
    /\ (WindowOpen /\ emitted # <<>> /\ Last(emitted).cause = "flush")
          => win_frames[1].id = Last(Last(emitted).frames).id

\* C2 amended: the triggering frame is the first frame of its window whose
\* timestamp exceeds window start + stack_length, it is folded into the
\* composite like every compared frame before the time test, so the flushed
\* image is the stack of all the window's frames, the triggering one included;
\* the next window is seeded by a frame dequeued after the triggering frame.
C2_TriggerFolded ==
    /\ \A k \in Flushes :
          LET fr == emitted[k].frames
              limit == fr[1].frame_time + stack_length
          IN  /\ emitted[k].job.data = StackOf(fr).max_stack
              /\ emitted[k].job.start_time = fr[1].frame_time
              /\ Last(fr).frame_time > limit
              /\ \A j \in 2..(Len(fr) - 1) : fr[j].frame_time <= limit
    /\ (WindowOpen /\ emitted # <<>> /\ Last(emitted).cause = "flush")
          => win_frames[1].id > Last(Last(emitted).frames).id

\* A flush whose triggering frame changed the composite, followed by a new
\* window seeded by a later frame.
C2_Witness ==
    /\ WindowOpen
    /\ emitted # <<>>
    /\ Last(emitted).cause = "flush"
    /\ StackOf(Last(emitted).frames).max_stack
          # StackOf(Front(Last(emitted).frames)).max_stack
    /\ Last(emitted).job.data = StackOf(Last(emitted).frames).max_stack

Range(seq) == { seq[k] : k \in 1..Len(seq) }

\* Ids of the emitted jobs that carry an image and were never handed to
\* _save_max_stack.
Unhandled ==
    { k \in 1..Len(emitted) :
        emitted[k].job.data # NoImage /\ emitted[k].job.id \notin Range(handled) }

\* C1 as stated, for the jobs that carry an image: when the saver thread has
\* left its loop, every job that was put on the saver queue has been dequeued
\* and handed to _save_max_stack.
C1_NoJobLost ==
    s_pc = "exited" => Unhandled = {}

\* C6 as stated: after a failed cap.read() has ended the reader thread, the
\* accumulation loop is not left blocked in StreamCapture.read() on an empty
\* frame queue that nothing will fill.
C6_ReadFailureUnblocksLoop ==
    ~(r_pc = "exited" /\ stream_running /\ m_pc = "read" /\ fq = <<>>)

\* C7 as stated: once Saver.stop() has cleared the flag and waits in join(),
\* the saver thread is not left blocked in q.get() on an empty queue.
C7_StopReleasesSaver ==
    ~(m_pc = "saver_join" /\ s_pc = "get" /\ sq = <<>>)

\* Jobs with an image whose write failed.
FailedWrites ==
    { id \in Range(handled) : emitted[id].job.data # NoImage /\ id \notin Range(saved) }

\* C8 as stated: after a failed image write the saver thread keeps running.
C8_WriteFailureNonFatal ==
    FailedWrites # {} => s_pc # "dead"

\* C9 as stated: the shutdown steps happen in the order flush, frame source
\* stopped, saver stopped, and the saver is stopped only once its queue has
\* drained.
C9_ShutdownOrder ==
    /\ \E n \in 0..3 : stop_log = SubSeq(<<"flush", "stream_stopped", "saver_stopped">>, 1, n)
    /\ (stop_log # <<>> /\ Last(stop_log) = "saver_stopped") => Unhandled = {}

\* Ids of the frames that contributed to an emitted SaveJob.
Contributed == UNION { { e.frames[j].id : j \in 1..Len(e.frames) } : e \in Range(emitted) }

\* Ids of the frames the reader thread has put on the frame queue.
Queued == 1..(IF r_pc = "put" THEN cap_reads - 1 ELSE cap_reads)

\* C10 as stated: when the process has ended, every frame that was put on the
\* frame queue has contributed to an emitted SaveJob.
C10_NoFrameLost ==
    m_pc \in {"done", "crashed"} => Queued \subseteq Contributed

\* C11: with a session duration below zero no component is ever started: the
\* reader thread and the saver thread are never created, their running flags
\* are never set and VideoStacker.run is never entered.
C11_NegativePeriodStartsNothing ==
    stack_period < 0 =>
        /\ r_pc = "unstarted" /\ ~stream_running
        /\ s_pc = "unstarted" /\ ~saver_running
        /\ m_pc \in {"main", "returned"}
        /\ fq = <<>> /\ sq = <<>> /\ emitted = <<>>

\* main() has returned on a negative session duration.
C11_Witness ==
    stack_period < 0 /\ m_pc = "returned"

\* The frames the accumulation loop has dequeued, in the order it dequeued them.
RECURSIVE EmittedFrames(_)
EmittedFrames(n) ==
    IF n = 0 THEN <<>> ELSE EmittedFrames(n - 1) \o emitted[n].frames

Dequeued ==
    EmittedFrames(Len(emitted)) \o win_frames
        \o (IF m_pc = "proc" THEN << m_item >> ELSE <<>>)

\* C12: frames are dequeued in the order the reader thread enqueued them (the
\* k-th dequeued frame is the k-th one read, and the queue holds the following
\* ones in order), and the saver thread takes the jobs one at a time in the
\* order they were created.
C12_FifoOrder ==
    /\ \A k \in 1..Len(Dequeued) : Dequeued[k].id = k
    /\ \A k \in 1..Len(fq) : fq[k].id = Len(Dequeued) + k
    /\ \A k \in 1..Len(handled) : handled[k] = k
    /\ s_pc = "write" => s_job.id = Len(handled) + 1
    /\ \A k \in 1..Len(sq) :
          sq[k].id = Len(handled) + (IF s_pc = "write" THEN 1 ELSE 0) + k

\* A flushed job and a later job were both handled, and at least three frames
\* were dequeued.
C12_Witness ==
    /\ Len(handled) >= 2
    /\ Len(Dequeued) >= 3
    /\ emitted[1].cause = "flush"

\* The greatest channel sum of a 3-channel 8-bit pixel.
MaxPixelSum == 255 + 255 + 255

MaxOf(S) ==
    IF S = {} THEN 0
    ELSE LET x == CHOOSE y \in S : \A z \in S : z <= y IN x

\* C13: the channel sums _update_max_stack_numba computes for a frame are the
\* true sums, none above 765, and every stored stack_sum is between 0 and 765
\* and is the greatest true channel sum among the compared frames (0 if none).
C13_SumFitsUint16 ==
    WindowOpen =>
        \A i \in Pixels :
            /\ \A k \in 1..Len(win_frames) :
                  /\ frame_sum(win_frames[k].frame)[i] = SumAt(k, i)
                  /\ SumAt(k, i) <= MaxPixelSum
            /\ stack_sum[i] \in 0..MaxPixelSum
            /\ stack_sum[i] = MaxOf({ SumAt(k, i) : k \in Compared })

\* A saturated pixel (255, 255, 255) of a compared frame was stored with its
\* sum 765.
C13_Witness ==
    /\ WindowOpen
    /\ \E i \in Pixels : stack_sum[i] = MaxPixelSum /\ max_stack[i] = <<255, 255, 255>>

\* C14 as stated: a flush happens on a frame exactly when its timestamp exceeds
\* window start + stack_length: every flushed window ends with its first frame
\* above the bound, and no frame above the bound is folded into a window that
\* is not flushed, whatever its position in the window.
C14_FlushExactlyAboveBound ==
    /\ \A k \in Flushes :
          LET fr == emitted[k].frames
              limit == fr[1].frame_time + stack_length
          IN  /\ Last(fr).frame_time > limit
              /\ \A j \in 2..(Len(fr) - 1) : fr[j].frame_time <= limit
    /\ \A j \in Compared :
          win_frames[j].frame_time <= win_frames[1].frame_time + stack_length

\* Windows opened by a seeding frame so far: those behind an emitted job and
\* the one still open.
WindowsOpened ==
    Cardinality({ k \in 1..Len(emitted) : emitted[k].frames # <<>> })
        + (IF win_frames # <<>> THEN 1 ELSE 0)

\* C15 as stated: when the session has ended, every opened window has produced
\* one SaveJob carrying its start time (the seeding frame's timestamp), and
\* there are as many SaveJobs as windows opened.
C15_OneJobPerWindow ==
    m_pc \in {"done", "crashed"} =>
        /\ win_frames = <<>>
        /\ Len(emitted) = WindowsOpened
        /\ \A k \in 1..Len(emitted) :
              /\ emitted[k].frames # <<>>
              /\ emitted[k].job.start_time = emitted[k].frames[1].frame_time

\* Frames on the frame queue, or about to be put on it, whose cap.read()
\* completed after StreamCapture.stop() had cleared self.running.
LateQueued ==
    Cardinality({ k \in 1..Len(fq) : fq[k].late })
        + (IF r_pc = "put" /\ r_item.late THEN 1 ELSE 0)

\* C16 as stated: no frame whose cap.read() completed after the stop request
\* is put on the frame queue.
C16_LateFrameNotQueued ==
    \A k \in 1..Len(fq) : ~fq[k].late

\* C16 amended: the reader tests self.running only at the top of its loop, so
\* the one frame whose cap.read() was under way at the stop request is still
\* put on the frame queue; at most one such frame is, and none is ever
\* dequeued by the accumulation loop.
C16_LateFrameNeverDequeued ==
    /\ LateQueued <= 1
    /\ \A k \in 1..Len(Dequeued) : ~Dequeued[k].late

\* The reader thread has ended and left on the queue a frame it read after the
\* stop request.
C16_Witness ==
    /\ r_pc = "exited"
    /\ ~stream_running
    /\ \E k \in 1..Len(fq) : fq[k].late

\* C17 as stated: once _set_stack_period_to_config is over, a configured
\* stacks.stack_period is the session duration and neither the scheduler nor
\* the location section was consulted; the scheduler's value is used only when
\* the key is absent.
C17_ConfiguredPeriodKept ==
    (m_pc \notin {"config", "crashed"} /\ config.stacks_period # {}) =>
        /\ stack_period \in config.stacks_period
        /\ ~consulted

\* C18 as stated: every SaveJob put on the saver queue carries an image and a
\* window start time; save() never runs while no window is open.
C18_JobCarriesImage ==
    \A k \in 1..Len(emitted) :
        emitted[k].job.data # NoImage /\ emitted[k].job.start_time # NoTime

\* C19 as stated: whenever the flush branch is about to be taken (a compared
\* frame above save_at), the divisor _num_frames is greater than zero, and the
\* accumulation loop never aborts.
C19_FlushDivisorPositive ==
    /\ (m_pc = "proc" /\ WindowOpen /\ m_item.frame_time > save_at) => num_frames > 0
    /\ m_pc # "crashed"

\* The arrays referenced by the SaveJobs that are on the saver queue or in the
\* saver thread's hands.
PendingBuffers ==
    { sq[k].buf : k \in 1..Len(sq) } \cup (IF s_pc = "write" THEN {s_job.buf} ELSE {})

\* The arrays of every SaveJob emitted so far.
EmittedBuffers == { emitted[k].job.buf : k \in 1..Len(emitted) } \ {0}

\* C20: the only array the accumulation loop writes is the one _max_stack
\* refers to, and that is never the array of an emitted SaveJob, enqueued, in
\* progress or done; nor is any frame still to be dequeued that array.
C20_JobBufferNotWritten ==
    /\ stack_buf \notin EmittedBuffers
    /\ \A k \in 1..Len(fq) : fq[k].id \notin EmittedBuffers
    /\ m_pc = "proc" => m_item.id \notin EmittedBuffers
    /\ PendingBuffers \ {0} \subseteq EmittedBuffers

\* A flushed job is still on the saver queue or being written while a new
\* window has been seeded on another array.
C20_Witness ==
    /\ WindowOpen
    /\ stack_buf # 0
    /\ \E b \in PendingBuffers : b # 0 /\ b # stack_buf

====
